---- MODULE Spec2Model ----
(***************************************************************************)
(* Model of the retrieval-augmented query orchestrator of backend/query.py *)
(* (perform_query, query_multiple_knowledge_bases, direct_ai_chat,         *)
(* format_sources, rerank_documents, calculate_relevance_score).           *)
(*                                                                         *)
(* Encodings.  A text is a sequence of one-character strings.  A Python    *)
(* Optional is a sequence of length 0 (None) or 1 (the value).  A Python   *)
(* dict with optional keys is a record of fixed shape with a field "keys"  *)
(* holding the keys that are present.                                      *)
(***************************************************************************)
EXTENDS Integers, Sequences, FiniteSets, TLC

\* ------------------------------------------------------------------------
\* Bounds of the model
\* ------------------------------------------------------------------------
MaxKbIds == 2
MaxRetrieved == 2

\* ------------------------------------------------------------------------
\* Optionals and small helpers
\* ------------------------------------------------------------------------
None == <<>>
Some(v) == <<v>>
IsNone(o) == o = <<>>
Val(o) == o[1]

Min(a, b) == IF a <= b THEN a ELSE b
Max(a, b) == IF a >= b THEN a ELSE b

\* seq[:n]
Take(seq, n) == SubSeq(seq, 1, Min(n, Len(seq)))

\* list.sort(key=..., reverse=True), keys[i] being the key of seq[i]:
\* descending, and stable (elements with equal keys keep their relative order)
SortDesc(seq, keys) ==
    LET Rank(i) == Cardinality({j \in 1..Len(seq) : keys[j] > keys[i]})
                   + Cardinality({j \in 1..(i - 1) : keys[j] = keys[i]}) + 1
    IN  [r \in 1..Len(seq) |-> seq[CHOOSE i \in 1..Len(seq) : Rank(i) = r]]

\* ------------------------------------------------------------------------
\* Texts
\* ------------------------------------------------------------------------
Whitespace == {" "}
Punctuation == {".", "?"}

\* str.lower() on one character
LowerChar(c) == IF c = "A" THEN "a" ELSE IF c = "B" THEN "b" ELSE c

\* re.sub(r'[^\w\s]', '', text.lower())
Clean(text) ==
    LET F[i \in 0..Len(text)] ==
            IF i = 0 THEN <<>>
            ELSE IF LowerChar(text[i]) \in Punctuation THEN F[i - 1]
            ELSE Append(F[i - 1], LowerChar(text[i]))
    IN  F[Len(text)]

\* str.split(): the maximal runs of non-whitespace characters
RECURSIVE SplitFrom(_, _, _)
SplitFrom(text, word, acc) ==
    IF text = <<>> THEN (IF word = <<>> THEN acc ELSE Append(acc, word))
    ELSE IF Head(text) \in Whitespace
         THEN SplitFrom(Tail(text), <<>>, IF word = <<>> THEN acc ELSE Append(acc, word))
         ELSE SplitFrom(Tail(text), Append(word, Head(text)), acc)

Split(text) == SplitFrom(text, <<>>, <<>>)

\* Counter(words)[term]
Count(words, term) == Cardinality({i \in 1..Len(words) : words[i] = term})

\* ------------------------------------------------------------------------
\* Relevance score (calculate_relevance_score)
\* ------------------------------------------------------------------------
\* np.dot
Dot(u, v) ==
    LET D[i \in 0..Len(u)] == IF i = 0 THEN 0 ELSE D[i - 1] + u[i] * v[i]
    IN  D[Len(u)]

\* integer square root
RECURSIVE IsqrtFrom(_, _)
IsqrtFrom(n, r) == IF (r + 1) * (r + 1) > n THEN r ELSE IsqrtFrom(n, r + 1)
Isqrt(n) == IsqrtFrom(n, 0)

\* np.linalg.norm; the vectors of the model all have an integer norm
Norm(v) == Isqrt(Dot(v, v))

\* a score that scales the cosine without shifting it: max(0, min(100, cos * 100))
calculate_relevance_score_unshifted(query_embedding, doc_embedding) ==
    LET dot_product == Dot(query_embedding, doc_embedding)
        query_norm  == Norm(query_embedding)
        doc_norm    == Norm(doc_embedding)
    IN  IF query_norm = 0 \/ doc_norm = 0 THEN 0
        ELSE Max(0, Min(100, (dot_product * 100) \div (query_norm * doc_norm)))

\* float(max(0, min(100, (cos + 1) * 50))), cos = dot / (|q| * |d|), as a
\* whole number: exact for the query vector, rounded down otherwise
calculate_relevance_score(query_embedding, doc_embedding) ==
    LET dot_product == Dot(query_embedding, doc_embedding)
        query_norm  == Norm(query_embedding)
        doc_norm    == Norm(doc_embedding)
    IN  IF query_norm = 0 \/ doc_norm = 0 THEN 0
        ELSE Max(0, Min(100, ((dot_product + query_norm * doc_norm) * 50)
                                 \div (query_norm * doc_norm)))

\* ------------------------------------------------------------------------
\* Retrieved passages (langchain Document: page_content, metadata)
\* ------------------------------------------------------------------------
\* a metadata value is an int or a str
IntV(n) == [t |-> "int", i |-> n, s |-> <<>>]
StrV(text) == [t |-> "str", i |-> 0, s |-> text]
NoV == IntV(0)

\* metadata dict: "keys" are the keys present; source is a path (directory
\* components, then the file name)
Metadata(keys, source, page, page_label) ==
    [keys |-> keys, source |-> source, page |-> page, page_label |-> page_label]

Document(page_content, metadata) ==
    [page_content |-> page_content, metadata |-> metadata]

PassageA == Document(<<"a", " ", "a">>,
                Metadata({"source", "page"}, <<"uploads", "d1.pdf">>, IntV(0), NoV))
PassageB == Document(<<"b">>,
                Metadata({"source", "page_label"}, <<"uploads", "d1.pdf">>, NoV, StrV(<<"5">>)))
PassageC == Document(<<"a", " ", "b">>,
                Metadata({"source", "page", "page_label"}, <<"uploads", "d2.pdf">>,
                         StrV(<<"0">>), StrV(<<"3", "a">>)))
PassageD == Document(<<"b", " ", "b">>,
                Metadata({"source"}, <<"uploads", "gone.pdf">>, NoV, NoV))
PassageE == Document(<<"A", ".">>,
                Metadata({}, <<>>, NoV, NoV))

Passages == {PassageA, PassageB, PassageC, PassageD, PassageE}

\* the rows of the documents table: stored_filename -> id, original_filename
StoredFilenames == {"d1.pdf", "d2.pdf"}
DocumentRow(stored_filename) ==
    IF stored_filename = "d1.pdf" THEN [id |-> 1, original_filename |-> "Report.pdf"]
    ELSE [id |-> 2, original_filename |-> "Manual.pdf"]

\* os.path.basename
Basename(path) == path[Len(path)]

\* the embedding service: the vector it returns for a text.  Against the
\* query vector the passages A..E score 85, 60, 80, 90 and 65.
QueryVector == <<1, 0, 0, 0>>
embed_query(text) ==
    IF text = PassageA.page_content THEN <<7, 1, 1, 7>>
    ELSE IF text = PassageB.page_content THEN <<1, 2, 2, 4>>
    ELSE IF text = PassageC.page_content THEN <<3, 4, 0, 0>>
    ELSE IF text = PassageD.page_content THEN <<4, 3, 0, 0>>
    ELSE IF text = PassageE.page_content THEN <<3, 9, 3, 1>>
    ELSE QueryVector

\* ------------------------------------------------------------------------
\* Re-ranking (rerank_documents)
\* ------------------------------------------------------------------------
RECURSIVE SumCounts(_, _)
SumCounts(terms, words) ==
    IF terms = {} THEN 0
    ELSE LET term == CHOOSE t \in terms : TRUE
         IN  Count(words, term) + SumCounts(terms \ {term}, words)

\* set(query_clean.split())
QueryTerms(query) ==
    LET words == Split(Clean(query))
    IN  {words[i] : i \in 1..Len(words)}

\* a score that counts each query term of the passage once
KeywordScore_presence(query_terms, doc) ==
    LET content_words == Split(Clean(doc.page_content))
    IN  Cardinality({t \in query_terms : Count(content_words, t) > 0})

\* sum(content_terms[term] for term in query_terms if term in content_terms)
KeywordScore(query_terms, doc) ==
    LET content_words == Split(Clean(doc.page_content))
        present == {t \in query_terms : Count(content_words, t) > 0}
    IN  SumCounts(present, content_words)

\* the keyword matching score of each passage
doc_scores(query, docs) ==
    LET query_terms == QueryTerms(query)
        S[i \in 0..Len(docs)] ==
            IF i = 0 THEN <<>> ELSE Append(S[i - 1], KeywordScore(query_terms, docs[i]))
    IN  S[Len(docs)]

\* an element without page_content: `doc.page_content` raises AttributeError
MalformedDocument == [metadata |-> Metadata({}, <<>>, NoV, NoV)]

\* the body of the try block raises: some element has no page_content
scoring_raises(query, docs) ==
    \E i \in 1..Len(docs) : "page_content" \notin DOMAIN docs[i]

\* a function without the try block: the failure of scoring leaves it
rerank_documents_reraise(query, docs) == scoring_raises(query, docs)
\* `except Exception` covers the whole body: nothing leaves the function
rerank_documents_raises(query, docs) == FALSE

\* the passages by descending keyword score; `docs` itself when scoring raises
rerank_documents(query, docs) ==
    IF scoring_raises(query, docs) THEN docs
    ELSE SortDesc(docs, doc_scores(query, docs))

\* ------------------------------------------------------------------------
\* Source assembly (format_sources)
\* ------------------------------------------------------------------------
PreviewLen == 400
SourceThreshold == 70

Digits == {"0", "1", "2", "3", "4", "5", "6", "7", "8", "9"}
DigitValue(c) ==
    CASE c = "0" -> 0 [] c = "1" -> 1 [] c = "2" -> 2 [] c = "3" -> 3 [] c = "4" -> 4
      [] c = "5" -> 5 [] c = "6" -> 6 [] c = "7" -> 7 [] c = "8" -> 8 [] c = "9" -> 9

\* str.isdigit()
IsDigit(text) == text # <<>> /\ \A i \in 1..Len(text) : text[i] \in Digits

\* the value of a non-empty string of digits
DigitsValue(text) ==
    LET V[i \in 0..Len(text)] == IF i = 0 THEN 0 ELSE V[i - 1] * 10 + DigitValue(text[i])
    IN  V[Len(text)]

\* str.strip()
RECURSIVE LStrip(_)
LStrip(text) ==
    IF text # <<>> /\ Head(text) \in Whitespace THEN LStrip(Tail(text)) ELSE text
RECURSIVE RStrip(_)
RStrip(text) ==
    IF text # <<>> /\ text[Len(text)] \in Whitespace
    THEN RStrip(SubSeq(text, 1, Len(text) - 1)) ELSE text
Strip(text) == RStrip(LStrip(text))

\* int(text): Some(n), or None where Python raises ValueError
ParseInt(text) ==
    LET t == Strip(text)
        signed == t # <<>> /\ Head(t) \in {"-", "+"}
        body == IF signed THEN Tail(t) ELSE t
    IN  IF ~IsDigit(body) THEN None
        ELSE IF signed /\ Head(t) = "-" THEN Some(0 - DigitsValue(body))
        ELSE Some(DigitsValue(body))

\* a resolution that reads the page index first and the label only without it
resolve_page_index_first(metadata) ==
    LET has_label == "page_label" \in metadata.keys
        parsed == IF metadata.page.t = "str" THEN ParseInt(metadata.page.s)
                  ELSE Some(metadata.page.i)
    IN  [page |-> IF "page" \in metadata.keys
                  THEN (IF IsNone(parsed) \/ Val(parsed) < 1 THEN Some(1) ELSE parsed)
                  ELSE IF has_label /\ metadata.page_label.t = "str"
                          /\ IsDigit(metadata.page_label.s)
                  THEN Some(DigitsValue(metadata.page_label.s))
                  ELSE None,
         page_label |-> IF has_label THEN Some(metadata.page_label) ELSE None]

\* page_number and page_label of one passage
resolve_page(metadata) ==
    LET has_label == "page_label" \in metadata.keys
        page_label == IF has_label THEN Some(metadata.page_label) ELSE None
        from_label == IF has_label /\ metadata.page_label.t = "str"
                         /\ IsDigit(metadata.page_label.s)
                      THEN Some(DigitsValue(metadata.page_label.s)) ELSE None
        parsed == IF metadata.page.t = "str" THEN ParseInt(metadata.page.s)
                  ELSE Some(metadata.page.i)
        from_page == IF IsNone(parsed) THEN Some(1)
                     ELSE IF Val(parsed) < 1 THEN Some(1) ELSE parsed
        page_number == IF ~IsNone(from_label) THEN from_label
                       ELSE IF "page" \in metadata.keys THEN from_page
                       ELSE None
    IN  [page |-> page_number, page_label |-> page_label]

\* content[:400] + "..." if len(content) > 400 else content
content_preview(content) ==
    IF Len(content) > PreviewLen
    THEN SubSeq(content, 1, PreviewLen) \o <<".", ".", ".">> ELSE content

\* the passage's document is in the documents table, or it has no source
Resolves(doc) ==
    LET md == doc.metadata
    IN  ("source" \in md.keys /\ md.source # <<>>) => Basename(md.source) \in StoredFilenames

\* the source_info built for the passage at position i (0-based in the code)
source_info(doc, i, query_embedding, doc_embeddings) ==
    LET md == doc.metadata
        has_source == "source" \in md.keys /\ md.source # <<>>
        row == DocumentRow(Basename(md.source))
        scored == ~IsNone(query_embedding) /\ ~IsNone(doc_embeddings)
                  /\ i <= Len(Val(doc_embeddings))
        pg == resolve_page(md)
    IN  [document_name |-> IF has_source THEN row.original_filename ELSE "Unknown Document",
         document_id |-> IF has_source THEN Some(row.id) ELSE None,
         content |-> doc.page_content,
         content_preview |-> content_preview(doc.page_content),
         relevance_score |-> IF scored
                             THEN Some(calculate_relevance_score(Val(query_embedding),
                                                                 Val(doc_embeddings)[i]))
                             ELSE None,
         page |-> pg.page,
         page_label |-> pg.page_label,
         metadata |-> IF md.keys = {} THEN None
                      ELSE Some(Metadata(md.keys \ {"source"}, <<>>, md.page, md.page_label)),
         knowledge_base_id |-> None]

\* the sources before the final sort and filter: one per passage whose
\* document resolves, in passage order
collected_sources(retrieved_docs, query_embedding, doc_embeddings) ==
    LET F[i \in 0..Len(retrieved_docs)] ==
            IF i = 0 THEN <<>>
            ELSE IF Resolves(retrieved_docs[i])
                 THEN Append(F[i - 1], source_info(retrieved_docs[i], i,
                                                   query_embedding, doc_embeddings))
                 ELSE F[i - 1]
    IN  F[Len(retrieved_docs)]

ScoreOf(s) == Val(s.relevance_score)

\* sources.sort(key=lambda x: x.get("relevance_score", 0), reverse=True)
Scores(srcs) ==
    LET S[i \in 0..Len(srcs)] ==
            IF i = 0 THEN <<>> ELSE Append(S[i - 1], ScoreOf(srcs[i]))
    IN  S[Len(srcs)]
SortByScore(srcs) == SortDesc(srcs, Scores(srcs))

\* a filter that keeps every source
AboveThreshold_all(srcs, threshold) == srcs

\* [s for s in srcs if s.get("relevance_score", 0) >= threshold]
AboveThreshold(srcs, threshold) ==
    LET F[i \in 0..Len(srcs)] ==
            IF i = 0 THEN <<>>
            ELSE IF ScoreOf(srcs[i]) >= threshold THEN Append(F[i - 1], srcs[i])
            ELSE F[i - 1]
    IN  F[Len(srcs)]

\* the sort and the filter compare a None score with a number: TypeError
format_sources_raises(retrieved_docs, query_embedding, doc_embeddings) ==
    LET sources == collected_sources(retrieved_docs, query_embedding, doc_embeddings)
    IN  /\ sources # <<>>
        /\ ~IsNone(sources[1].relevance_score)
        /\ \E i \in 1..Len(sources) : IsNone(sources[i].relevance_score)

format_sources(retrieved_docs, query_embedding, doc_embeddings) ==
    LET sources == collected_sources(retrieved_docs, query_embedding, doc_embeddings)
    IN  IF sources # <<>> /\ ~IsNone(sources[1].relevance_score)
        THEN AboveThreshold(SortByScore(sources), SourceThreshold)
        ELSE sources

\* ------------------------------------------------------------------------
\* Inputs and results of perform_query
\* ------------------------------------------------------------------------
\* the queries of the model: empty, whitespace only, one word
Queries == {<<>>, <<" ">>, <<"a">>}

KbIdSet == {1, 2}
KbIdLists == UNION {[1..k -> KbIdSet] : k \in 0..MaxKbIds}

\* the kb_id argument: absent, or one id
KbIdChoices == {None, Some(1)}

\* what the retriever can return: up to MaxRetrieved distinct passages, in
\* the order of IndexOrder, or the whole index (more than top_docs can hold)
IndexOrder == <<PassageB, PassageD, PassageE, PassageC, PassageA>>
Pick(positions) ==
    LET P[i \in 0..Len(IndexOrder)] ==
            IF i = 0 THEN <<>>
            ELSE IF i \in positions THEN Append(P[i - 1], IndexOrder[i]) ELSE P[i - 1]
    IN  P[Len(IndexOrder)]
RetrievalResults ==
    {Pick(positions) : positions \in {ps \in SUBSET (1..Len(IndexOrder)) :
                                         Cardinality(ps) <= MaxRetrieved}}
    \cup {IndexOrder}

\* the external collaborators
Collaborators == {"llm_init", "model_list", "store", "index", "retrieve", "embed", "generate"}

\* the "query" echo of a response
QueryEcho(keys, original, the_kb_id, the_kb_ids) ==
    [keys |-> keys, original |-> original, kb_id |-> the_kb_id, kb_ids |-> the_kb_ids]
NoEcho == QueryEcho({}, <<>>, None, <<>>)

Response(keys, answer, srcs, echo, note, error, detail) ==
    [keys |-> keys, answer |-> answer, sources |-> srcs, query |-> echo,
     note |-> note, error |-> error, detail |-> detail]

\* no value returned yet
NoResult == Response({}, "", <<>>, NoEcho, "", "", "")

ErrorResult(error, detail) ==
    Response({"error", "detail"}, "", <<>>, NoEcho, "", error, detail)

NoHighRelevanceNote ==
    "No highly relevant information found in the knowledge base. This answer is based on the AI's general knowledge."

\* a prompt handed to llm.invoke
Prompt(template, context, question) ==
    [template |-> template, context |-> context, question |-> question]
NoPrompt == Prompt("none", <<>>, <<>>)

\* no iteration of the multi-knowledge-base loop yet
NoOutcome == [kb_id |-> None, outcome |-> "none", top_docs |-> <<>>, relevant_sources |-> <<>>]

Contents(srcs) == [i \in 1..Len(srcs) |-> srcs[i].content]

TopSingle == 4
TopMulti == 3
MultiThreshold == 65
MaxSources == 10

\* ------------------------------------------------------------------------
\* State of one perform_query call
\* ------------------------------------------------------------------------
VARIABLES
    input_query,        \* the query text
    kb_id,              \* Optional knowledge base id
    kb_ids,             \* Optional list of knowledge base ids
    pc,                 \* the stage the call has reached
    llm,                \* "none", "configured" or "fallback"
    mode,               \* the mode selected: "none", "multi", "direct", "single"
    called,             \* the collaborators called so far
    llm_attempts,       \* the number of ChatOllama constructions
    generations,        \* the number of answer generations (llm.invoke)
    env,                \* how each collaborator answered perform_query's own
                        \* calls, "unknown" before (the loop over kb_ids keeps
                        \* its outcomes in kb_outcome)
    top_docs,           \* single mode: the re-ranked passages kept
    sources,            \* single mode: sources
    relevant_sources,   \* single mode: relevant_sources
    kb_index,           \* multi mode: position of the loop in kb_ids
    all_sources,        \* multi mode: the merged list
    kb_outcome,         \* multi mode: the last iteration: its kb_id, how it
                        \* ended and its relevant_sources
    skipped,            \* multi mode: whether an iteration has ended without
                        \* reaching the end of the loop body
    top_sources,        \* multi mode: top_sources
    direct_kb,          \* the kb_id argument of direct_ai_chat
    prompt,             \* the prompt of the answer generation
    result,             \* the value returned
    data,               \* app.py: the JSON body of the request being handled
    rpc,                \* app.py: the stage of the route handler
    messages,           \* app.py: the rows of conversation_messages, oldest first
    reply,              \* app.py: the HTTP response of the route
    requests,           \* app.py: the number of requests received
    applied,            \* a function applied on its own: its name and arguments
    returned            \* what that application returned, or that it raised

vars == <<input_query, kb_id, kb_ids, pc, llm, mode, called, llm_attempts, generations,
          env, top_docs, sources, relevant_sources, kb_index, all_sources, kb_outcome,
          skipped, top_sources, direct_kb, prompt, result, data, rpc, messages, reply,
          requests, applied, returned>>

inputs == <<input_query, kb_id, kb_ids>>
route_vars == <<data, rpc, messages, reply, requests>>
fn_vars == <<applied, returned>>
single_vars == <<top_docs, sources, relevant_sources>>
multi_vars == <<kb_index, all_sources, kb_outcome, skipped, top_sources>>

\* the JSON body of a /query or /chat request without knowledge-base scope
Data(route, query, conversation_id) ==
    [route |-> route, query |-> query, conversation_id |-> conversation_id]
NoData == Data("none", <<>>, None)

\* jsonify(body), status: the body has the keys and values of `r`, and the
\* conversation_id and warning the route adds
Reply(status, keys, r, conversation_id, warning) ==
    [status |-> status, keys |-> keys, body |-> r, conversation_id |-> conversation_id,
     warning |-> warning]
NoReply == Reply(0, {}, NoResult, None, "")

\* an application of the function `fn`; the arguments a function does not have
\* are left empty
Call(fn, query, docs, query_embedding, doc_embeddings) ==
    [fn |-> fn, query |-> query, docs |-> docs, query_embedding |-> query_embedding,
     doc_embeddings |-> doc_embeddings]

\* the outcome of an application: the value returned, or an exception
Returned(value) == [raised |-> FALSE, value |-> value]
Raised == [raised |-> TRUE, value |-> <<>>]

\* no function is applied on its own
NoCall ==
    /\ applied = Call("none", <<>>, <<>>, None, None)
    /\ returned = Returned(<<>>)

\* perform_query is called directly, by no route
NoRoute ==
    /\ data = NoData
    /\ rpc = "none"
    /\ messages = <<>>
    /\ reply = NoReply
    /\ requests = 0

Unknown ==
    [store |-> "unknown", index |-> "unknown", retriever |-> "unknown",
     retrieval |-> "unknown", scoring |-> "unknown", setup |-> "unknown",
     generation |-> "unknown", history |-> "unknown"]

\* the calls of the model: every query with every kb_id and every list of at
\* most one id; the longer lists with the one-word query and no kb_id
Calls ==
    {call \in [query : Queries, kb_id : KbIdChoices,
               kb_ids : {None} \cup {Some(ids) : ids \in KbIdLists}] :
        (~IsNone(call.kb_ids) /\ Len(Val(call.kb_ids)) > 1)
            => (call.query = <<"a">> /\ IsNone(call.kb_id))}

Init ==
    /\ \E call \in Calls :
         /\ input_query = call.query
         /\ kb_id = call.kb_id
         /\ kb_ids = call.kb_ids
    /\ pc = "start"
    /\ llm = "none"
    /\ mode = "none"
    /\ called = {}
    /\ llm_attempts = 0
    /\ generations = 0
    /\ env = Unknown
    /\ top_docs = <<>>
    /\ sources = <<>>
    /\ relevant_sources = <<>>
    /\ kb_index = 0
    /\ all_sources = <<>>
    /\ kb_outcome = NoOutcome
    /\ skipped = FALSE
    /\ top_sources = <<>>
    /\ direct_kb = None
    /\ prompt = NoPrompt
    /\ result = NoResult
    /\ NoRoute
    /\ NoCall

\* return value
Return(r) ==
    /\ result' = r
    /\ pc' = "done"

\* a handler that lets the exception through to the caller
perform_query_reraise(detail) ==
    Response({"exception"}, "", <<>>, NoEcho, "", "", detail)

\* the handler of the try block around the body of perform_query
perform_query_except(detail) == ErrorResult("Query execution failed", detail)

\* a validation that lets every query through
IsEmptyQuery_never(query) == FALSE

\* "if not input_query"
IsEmptyQuery(query) == query = <<>>

\* perform_query: validation of the query
Validate ==
    /\ pc = "start"
    /\ IF IsEmptyQuery(input_query)
       THEN Return(ErrorResult("Query content cannot be empty",
                               "Please provide a valid query"))
       ELSE pc' = "init_llm" /\ UNCHANGED result
    /\ UNCHANGED <<fn_vars, route_vars, inputs, llm, mode, called, llm_attempts, generations, env, single_vars,
                   multi_vars, direct_kb, prompt>>

\* perform_query: ChatOllama(model=model_name)
InitializeModel ==
    /\ pc = "init_llm"
    /\ called' = called \cup {"llm_init"}
    /\ llm_attempts' = llm_attempts + 1
    /\ \E ok \in BOOLEAN :
         IF ok THEN llm' = "configured" /\ pc' = "select"
         ELSE llm' = llm /\ pc' = "fallback_llm"
    /\ UNCHANGED <<fn_vars, route_vars, inputs, mode, generations, env, single_vars, multi_vars, direct_kb,
                   prompt, result>>

\* a fallback that tries the listed model a second time when it fails
fallback_attempts_twice(outcome) ==
    CASE outcome = "retry_ok" -> 1
      [] outcome = "retry_raises" -> 2
      [] OTHER -> 0

\* the ChatOllama constructions of the fallback: one, with models[0], when
\* the list has an entry
fallback_attempts(outcome) == IF outcome \in {"retry_raises", "retry_ok"} THEN 1 ELSE 0

\* perform_query: "ollama list", then ChatOllama(model=available_model)
FallbackModel ==
    /\ pc = "fallback_llm"
    /\ called' = called \cup {"model_list"}
    /\ \E outcome \in {"list_raises", "no_models", "retry_raises", "retry_ok"} :
         /\ llm_attempts' = llm_attempts + fallback_attempts(outcome)
         /\ CASE outcome = "retry_ok" ->
                   llm' = "fallback" /\ pc' = "select" /\ UNCHANGED result
              [] outcome = "no_models" ->
                   /\ Return(ErrorResult("Cannot initialize language model",
                                         "no other available models"))
                   /\ UNCHANGED llm
              [] OTHER ->
                   /\ Return(ErrorResult("Cannot initialize language model",
                                         "Original error, Fallback error"))
                   /\ UNCHANGED llm
    /\ UNCHANGED <<fn_vars, route_vars, inputs, mode, generations, env, single_vars, multi_vars, direct_kb,
                   prompt>>

\* "if kb_ids and len(kb_ids) > 0"
HasKbIds(ids) == ~IsNone(ids) /\ Len(Val(ids)) > 0

\* a selection that looks at kb_id before kb_ids
select_mode_kb_id_first(the_kb_id, the_kb_ids) ==
    IF ~IsNone(the_kb_id) THEN "single"
    ELSE IF HasKbIds(the_kb_ids) THEN "multi"
    ELSE "direct"

\* the mode perform_query selects
select_mode(the_kb_id, the_kb_ids) ==
    IF HasKbIds(the_kb_ids) THEN "multi"
    ELSE IF IsNone(the_kb_id) /\ (IsNone(the_kb_ids) \/ Len(Val(the_kb_ids)) = 0)
         THEN "direct"
    ELSE "single"

\* perform_query: mode selection
SelectMode ==
    /\ pc = "select"
    /\ mode' = select_mode(kb_id, kb_ids)
    /\ pc' = CASE mode' = "multi" -> "multi_setup"
               [] mode' = "direct" -> "direct"
               [] OTHER -> "check_kb"
    /\ direct_kb' = None
    /\ UNCHANGED <<fn_vars, route_vars, inputs, llm, called, llm_attempts, generations, env, single_vars,
                   multi_vars, prompt, result>>

\* direct_ai_chat(input_query, llm, kb) is entered
EnterDirectChat(kb) ==
    /\ pc' = "direct"
    /\ direct_kb' = kb

\* an existence check that accepts every id
check_knowledge_base_exists_always(row) == TRUE

\* check_knowledge_base_exists: "cursor.fetchone() is not None"
check_knowledge_base_exists(row) == row = "exists"

\* perform_query: check_knowledge_base_exists(DB_PATH, kb_id)
CheckKnowledgeBase ==
    /\ pc = "check_kb"
    /\ called' = called \cup {"store"}
    /\ \E outcome \in {"exists", "missing", "raises"} :
         /\ env' = [env EXCEPT !.store = outcome]
         /\ IF outcome = "raises" THEN Return(perform_query_except("store error"))
            ELSE IF ~check_knowledge_base_exists(outcome)
                 THEN Return(ErrorResult("Knowledge base does not exist",
                                         "Knowledge base with this ID does not exist"))
            ELSE pc' = "open_index" /\ UNCHANGED result
    /\ UNCHANGED <<fn_vars, route_vars, inputs, llm, mode, llm_attempts, generations, single_vars, multi_vars,
                   direct_kb, prompt>>

\* an index check without the count of the collection
index_unusable_only_raise(outcome) == outcome = "raises"

\* "db._collection.count() == 0", or get_vector_db raised
index_unusable(outcome) == outcome \in {"empty", "raises"}

\* perform_query: get_vector_db(kb_id) and the count of its collection
OpenVectorDb ==
    /\ pc = "open_index"
    /\ called' = called \cup {"index"}
    /\ \E outcome \in {"ok", "empty", "raises"} :
         /\ env' = [env EXCEPT !.index = outcome]
         /\ IF index_unusable(outcome) THEN EnterDirectChat(kb_id)
            ELSE pc' = "make_retriever" /\ UNCHANGED direct_kb
    /\ UNCHANGED <<fn_vars, route_vars, inputs, llm, mode, llm_attempts, generations, single_vars, multi_vars,
                   prompt, result>>

\* perform_query: MultiQueryRetriever.from_llm
MakeRetriever ==
    /\ pc = "make_retriever"
    /\ \E outcome \in {"ok", "raises"} :
         /\ env' = [env EXCEPT !.retriever = outcome]
         /\ IF outcome = "ok" THEN pc' = "retrieve" /\ UNCHANGED direct_kb
            ELSE EnterDirectChat(kb_id)
    /\ UNCHANGED <<fn_vars, route_vars, inputs, llm, mode, called, llm_attempts, generations, single_vars,
                   multi_vars, prompt, result>>

\* a check that takes every retrieval result as non-empty
no_documents_never(retrieved_docs) == FALSE

\* "if not retrieved_docs"
no_documents(retrieved_docs) == retrieved_docs = <<>>

\* perform_query: retrieval, re-ranking, top 4
Retrieve ==
    /\ pc = "retrieve"
    /\ called' = called \cup {"retrieve"}
    /\ \/ \* get_relevant_documents raises
          /\ env' = [env EXCEPT !.retrieval = "raises"]
          /\ EnterDirectChat(kb_id)
          /\ UNCHANGED top_docs
       \/ \E retrieved_docs \in RetrievalResults :
            /\ env' = [env EXCEPT !.retrieval = IF retrieved_docs = <<>> THEN "no_docs"
                                                ELSE "docs"]
            /\ IF no_documents(retrieved_docs)
               THEN EnterDirectChat(kb_id) /\ UNCHANGED top_docs
               ELSE /\ top_docs' = Take(rerank_documents(input_query, retrieved_docs),
                                        TopSingle)
                    /\ pc' = "score"
                    /\ UNCHANGED direct_kb
    /\ UNCHANGED <<fn_vars, route_vars, inputs, llm, mode, llm_attempts, generations, sources, relevant_sources,
                   multi_vars, prompt, result>>

\* the embeddings of the passages
Embeddings(docs) == [i \in 1..Len(docs) |-> embed_query(docs[i].page_content)]

\* perform_query: embeddings, format_sources, relevant_sources
ScoreSources ==
    /\ pc = "score"
    /\ called' = called \cup {"embed", "store"}
    /\ \E outcome \in {"scored", "embed_raises", "format_raises",
                       "embed_and_format_raise", "format_raises_twice"} :
         /\ env' = [env EXCEPT !.scoring = outcome]
         /\ CASE outcome = "scored" ->
                   /\ LET query_embedding == Some(embed_query(input_query))
                          doc_embeddings == Some(Embeddings(top_docs))
                      IN  sources' = format_sources(top_docs, query_embedding, doc_embeddings)
                   /\ relevant_sources' = AboveThreshold(sources', SourceThreshold)
                   /\ pc' = IF relevant_sources' = <<>> THEN "fallback_answer"
                            ELSE "grounded_answer"
                   /\ UNCHANGED result
              [] outcome \in {"embed_raises", "format_raises"} ->
                   /\ sources' = format_sources(top_docs, None, None)
                   /\ relevant_sources' = sources'
                   /\ pc' = IF relevant_sources' = <<>> THEN "fallback_answer"
                            ELSE "grounded_answer"
                   /\ UNCHANGED result
              [] OTHER ->
                   /\ Return(perform_query_except("store error"))
                   /\ UNCHANGED <<sources, relevant_sources>>
    /\ UNCHANGED <<fn_vars, route_vars, inputs, llm, mode, llm_attempts, generations, top_docs, multi_vars,
                   direct_kb, prompt>>

\* a handler that answers a failed generation by turning to direct chat
generation_except_direct_chat(error) == pc' = "direct" /\ UNCHANGED result

\* "except Exception as llm_error": the Error value is returned
generation_except(error) == Return(ErrorResult(error, "llm error"))

\* llm.invoke(formatted_prompt): the answer is returned as `response`, or the
\* call raises and `error` is returned
Generate(formatted_prompt, response, error) ==
    /\ called' = called \cup {"generate"}
    /\ generations' = generations + 1
    /\ prompt' = formatted_prompt
    /\ \E outcome \in {"ok", "raises"} :
         /\ env' = [env EXCEPT !.generation = outcome]
         /\ IF outcome = "ok" THEN Return(response)
            ELSE generation_except(error)
    /\ UNCHANGED <<fn_vars, route_vars, inputs, llm, mode, llm_attempts, single_vars, multi_vars, direct_kb>>

\* the response of the two single-knowledge-base answers
SingleResponse(keys, note) ==
    Response({"answer", "sources", "query"} \cup keys, "raw_answer", sources,
             QueryEcho({"original", "kb_id"}, input_query, kb_id, <<>>), note, "", "")

\* perform_query: no relevant source, answer from the model's own knowledge
FallbackAnswer ==
    /\ pc = "fallback_answer"
    /\ Generate(Prompt("direct", <<>>, input_query),
                SingleResponse({"note"}, NoHighRelevanceNote),
                "Cannot generate answer")

\* perform_query: answer from the relevant sources
GroundedAnswer ==
    /\ pc = "grounded_answer"
    /\ Generate(Prompt("answer", Contents(relevant_sources), input_query),
                SingleResponse({}, ""),
                "Cannot generate answer")

\* a direct-chat response without its is_direct_chat mark
DirectResponse_unmarked ==
    Response({"answer", "sources", "query"}, "raw_answer", <<>>,
             QueryEcho({"original", "kb_id"}, input_query, direct_kb, <<>>), "", "", "")

\* the response of direct_ai_chat
DirectResponse ==
    Response({"answer", "sources", "query", "is_direct_chat"}, "raw_answer", <<>>,
             QueryEcho({"original", "kb_id"}, input_query, direct_kb, <<>>), "", "", "")

\* direct_ai_chat
DirectChat ==
    /\ pc = "direct"
    /\ Generate(Prompt("direct", <<>>, input_query), DirectResponse,
                "Answer generation failed")

\* ------------------------------------------------------------------------
\* query_multiple_knowledge_bases
\* ------------------------------------------------------------------------
\* query_multiple_knowledge_bases: prompts and embedding model
MultiSetup ==
    /\ pc = "multi_setup"
    /\ \E outcome \in {"ok", "raises"} :
         /\ env' = [env EXCEPT !.setup = outcome]
         /\ IF outcome = "ok"
            THEN /\ pc' = "multi_loop"
                 /\ kb_index' = 1
                 /\ all_sources' = <<>>
                 /\ UNCHANGED direct_kb
            ELSE /\ EnterDirectChat(None)
                 /\ UNCHANGED <<kb_index, all_sources>>
    /\ UNCHANGED <<fn_vars, route_vars, inputs, llm, mode, called, llm_attempts, generations, single_vars,
                   kb_outcome, skipped, top_sources, prompt, result>>

\* sources left without the id of their knowledge base
Tagged_untagged(srcs, kb) == srcs

\* source["knowledge_base_id"] = kb_id
Tagged(srcs, kb) == [i \in 1..Len(srcs) |-> [srcs[i] EXCEPT !.knowledge_base_id = Some(kb)]]

\* the relevant_sources one knowledge base yields from the passages retrieved
\* reranked_docs[:3]
kb_top_docs(query, retrieved_docs) == Take(rerank_documents(query, retrieved_docs), TopMulti)

\* the relevant_sources one knowledge base yields from its kept passages
kb_relevant_sources(query, kept, kb) ==
    LET query_embedding == Some(embed_query(query))
        doc_embeddings == Some(Embeddings(kept))
        srcs == format_sources(kept, query_embedding, doc_embeddings)
    IN  Tagged(AboveThreshold(srcs, MultiThreshold), kb)

\* the ways an iteration ends before it has retrieved passages
EarlyOutcomes == {"missing", "store_raises", "empty", "index_raises", "retrieve_raises"}

\* an iteration that has retrieved passages ends by an exception: embed_query
\* or format_sources raises, both caught by the same handler
LateOutcomes == {"scoring_raises"}

\* the ways an iteration ends without sources: the knowledge base does not
\* exist, its index is empty, or a call raises
FailingOutcomes == EarlyOutcomes \cup LateOutcomes

\* the collaborators one iteration calls before it ends as `outcome`
IterationCalls(outcome) ==
    CASE outcome \in {"missing", "store_raises"} -> {"store"}
      [] outcome \in {"empty", "index_raises"} -> {"store", "index"}
      [] outcome \in {"retrieve_raises", "no_docs"} -> {"store", "index", "retrieve"}
      [] OTHER -> {"store", "index", "retrieve", "embed"}

\* a loop that stops at the first iteration that ends early
AfterIteration_break(outcome, index) ==
    IF outcome \in FailingOutcomes THEN Len(Val(kb_ids)) + 1 ELSE index + 1

\* "continue", and the end of the loop body: the loop goes on with the next id
AfterIteration(outcome, index) == index + 1

\* query_multiple_knowledge_bases: one iteration of the loop over kb_ids
QueryKnowledgeBase ==
    /\ pc = "multi_loop"
    /\ kb_index <= Len(Val(kb_ids))
    /\ LET kb == Val(kb_ids)[kb_index]
       IN  \/ \E outcome \in EarlyOutcomes :
                /\ called' = called \cup IterationCalls(outcome)
                /\ kb_outcome' = [kb_id |-> Some(kb), outcome |-> outcome,
                                  top_docs |-> <<>>, relevant_sources |-> <<>>]
                /\ skipped' = TRUE
                /\ kb_index' = AfterIteration(outcome, kb_index)
                /\ UNCHANGED all_sources
           \/ \E retrieved_docs \in RetrievalResults :
                \E kept \in {kb_top_docs(input_query, retrieved_docs)},
                   outcome \in IF retrieved_docs = <<>> THEN {"no_docs"}
                               ELSE {"scored"} \cup LateOutcomes :
                  /\ called' = called \cup IterationCalls(outcome)
                  /\ kb_outcome' =
                       [kb_id |-> Some(kb), outcome |-> outcome, top_docs |-> kept,
                        relevant_sources |->
                            IF outcome = "scored"
                            THEN kb_relevant_sources(input_query, kept, kb) ELSE <<>>]
                  /\ all_sources' = all_sources \o kb_outcome'.relevant_sources
                  /\ skipped' = (skipped \/ outcome \in LateOutcomes)
                  /\ kb_index' = AfterIteration(outcome, kb_index)
    /\ UNCHANGED <<fn_vars, route_vars, inputs, pc, llm, mode, llm_attempts, generations, env, single_vars,
                   top_sources, direct_kb, prompt, result>>

\* a merge that caps the merged list without sorting it
merge_top_sources_unsorted(merged) == Take(merged, MaxSources)

\* all_sources.sort(key=relevance_score, reverse=True); top_sources = all_sources[:10]
merge_top_sources(merged) == Take(SortByScore(merged), MaxSources)

\* a test that takes every merged list for a non-empty one
no_relevant_sources_never(merged) == FALSE

\* "if not all_sources"
no_relevant_sources(merged) == merged = <<>>

\* query_multiple_knowledge_bases: after the loop, sort and cap the merged list
MergeSources ==
    /\ pc = "multi_loop"
    /\ kb_index > Len(Val(kb_ids))
    /\ IF no_relevant_sources(all_sources)
       THEN EnterDirectChat(None) /\ UNCHANGED top_sources
       ELSE /\ top_sources' = merge_top_sources(all_sources)
            /\ pc' = "multi_answer"
            /\ UNCHANGED direct_kb
    /\ UNCHANGED <<fn_vars, route_vars, inputs, llm, mode, called, llm_attempts, generations, env, single_vars,
                   kb_index, all_sources, kb_outcome, skipped, prompt, result>>

MultiResponse ==
    Response({"answer", "sources", "query", "is_multi_kb_query"}, "raw_answer", top_sources,
             QueryEcho({"original", "kb_ids"}, input_query, None, Val(kb_ids)), "", "", "")

\* query_multiple_knowledge_bases: answer from the merged sources
MultiAnswer ==
    /\ pc = "multi_answer"
    /\ Generate(Prompt("multi_kb", Contents(top_sources), input_query), MultiResponse,
                "Cannot generate answer")

Next ==
    \/ Validate
    \/ InitializeModel
    \/ FallbackModel
    \/ SelectMode
    \/ CheckKnowledgeBase
    \/ OpenVectorDb
    \/ MakeRetriever
    \/ Retrieve
    \/ ScoreSources
    \/ FallbackAnswer
    \/ GroundedAnswer
    \/ DirectChat
    \/ MultiSetup
    \/ QueryKnowledgeBase
    \/ MergeSources
    \/ MultiAnswer

Spec == Init /\ [][Next]_vars

\* ------------------------------------------------------------------------
\* The merge of query_multiple_knowledge_bases on long merged lists: the calls
\* of MaxMergedKbs knowledge bases, taken up at the end of the loop
\* ------------------------------------------------------------------------
MaxMergedKbs == 6

\* the non-empty lists of relevant sources knowledge base `kb` can yield
RelevantLists(query, kb) ==
    {kb_relevant_sources(query, kb_top_docs(query, r), kb) : r \in RetrievalResults}
        \ {<<>>}

\* the merged lists the loop can have built after `n` iterations that all
\* found relevant sources, for the query `query` and the ids 1..n
MergedAfter(query, n) ==
    LET M[k \in 0..n] ==
            IF k = 0 THEN {<<>>}
            ELSE {m \o relevant : m \in M[k - 1], relevant \in RelevantLists(query, k)}
    IN  M[n]

\* the state of a call at the end of its loop over the ids 1..MaxMergedKbs
MergeInit ==
    /\ input_query = <<"a">>
    /\ kb_id = None
    /\ kb_ids = Some([k \in 1..MaxMergedKbs |-> k])
    /\ pc = "multi_loop"
    /\ llm = "configured"
    /\ mode = "multi"
    /\ called = {"llm_init", "store", "index", "retrieve", "embed"}
    /\ llm_attempts = 1
    /\ generations = 0
    /\ env = [Unknown EXCEPT !.setup = "ok"]
    /\ top_docs = <<>>
    /\ sources = <<>>
    /\ relevant_sources = <<>>
    /\ kb_index = MaxMergedKbs + 1
    /\ \E m \in MergedAfter(input_query, MaxMergedKbs - 1),
          r \in RetrievalResults \ {<<>>} :
         \E kept \in {kb_top_docs(input_query, r)} :
           /\ kb_outcome = [kb_id |-> Some(MaxMergedKbs), outcome |-> "scored",
                            top_docs |-> kept,
                            relevant_sources |->
                                kb_relevant_sources(input_query, kept, MaxMergedKbs)]
           /\ all_sources = m \o kb_outcome.relevant_sources
    /\ skipped = FALSE
    /\ top_sources = <<>>
    /\ direct_kb = None
    /\ prompt = NoPrompt
    /\ result = NoResult
    /\ NoRoute
    /\ NoCall

MergeNext ==
    \/ MergeSources
    \/ MultiAnswer

MergeSpec == MergeInit /\ [][MergeNext]_vars

\* ------------------------------------------------------------------------
\* app.py: route_query and route_direct_chat, for requests that carry no
\* knowledge-base scope, handled one after the other
\* ------------------------------------------------------------------------
MaxRequests == 2

\* the conversation that exists, and one that does not
ExistingConversation == 1
MissingConversation == 2
ConversationIds == {None, Some(ExistingConversation), Some(MissingConversation)}

Routes == {"query", "chat"}

\* a row of conversation_messages
Message(message_type, content, srcs) ==
    [message_type |-> message_type, content |-> content, sources |-> srcs]

\* json.dumps(response.get('sources', [])) if response.get('sources') else None
sources_json(r) == IF r.sources # <<>> THEN Some(r.sources) ELSE None

\* response.get('answer', '')
answer_of(r) == IF "answer" \in r.keys THEN r.answer ELSE ""

ErrorBody(error) == ErrorResult(error, "")

RouteInit ==
    /\ input_query = <<>>
    /\ kb_id = None
    /\ kb_ids = None
    /\ pc = "idle"
    /\ llm = "none"
    /\ mode = "none"
    /\ called = {}
    /\ llm_attempts = 0
    /\ generations = 0
    /\ env = Unknown
    /\ top_docs = <<>>
    /\ sources = <<>>
    /\ relevant_sources = <<>>
    /\ kb_index = 0
    /\ all_sources = <<>>
    /\ kb_outcome = NoOutcome
    /\ skipped = FALSE
    /\ top_sources = <<>>
    /\ direct_kb = None
    /\ prompt = NoPrompt
    /\ result = NoResult
    /\ data = NoData
    /\ rpc = "idle"
    /\ messages = <<>>
    /\ reply = NoReply
    /\ requests = 0
    /\ NoCall

\* the route answers without calling perform_query
RouteReject(status, error) ==
    /\ rpc' = "responded"
    /\ reply' = Reply(status, {"error"}, ErrorBody(error), None, "")
    /\ UNCHANGED <<input_query, pc>>

\* route_query, route_direct_chat: from the request to the call of
\* perform_query(user_query): the body is read, the query and the
\* conversation_id are verified
RouteReceive ==
    /\ rpc \in {"idle", "responded"}
    /\ requests < MaxRequests
    /\ requests' = requests + 1
    /\ \E route \in Routes, query \in Queries, conversation_id \in ConversationIds,
          lookup \in {"ok", "raises"} :
         /\ data' = Data(route, query, conversation_id)
         /\ IF query = <<>>
            THEN RouteReject(400, "please provide a query")
            ELSE IF ~IsNone(conversation_id) /\ lookup = "raises"
            THEN RouteReject(500, IF route = "query" THEN "error with query"
                                  ELSE "error with chat")
            ELSE IF conversation_id = Some(MissingConversation)
            THEN RouteReject(404, "conversation not found")
            ELSE /\ rpc' = "calling"
                 /\ input_query' = query
                 /\ pc' = "start"
                 /\ reply' = NoReply
    /\ llm' = "none"
    /\ mode' = "none"
    /\ called' = {}
    /\ llm_attempts' = 0
    /\ generations' = 0
    /\ env' = Unknown
    /\ direct_kb' = None
    /\ prompt' = NoPrompt
    /\ result' = NoResult
    /\ UNCHANGED <<kb_id, kb_ids, single_vars, multi_vars, messages, fn_vars>>

\* a handler that turns a failed save into an error response
save_except_error(r) ==
    Reply(500, {"error", "detail"}, ErrorResult("error with query", "save error"), None, "")

\* "except Exception as e": response['warning'] = "Failed to save conversation history"
save_except(r) ==
    Reply(200, r.keys \cup {"warning"}, r, None, "Failed to save conversation history")

\* the outcomes of the two save_conversation_message calls
SaveOutcomes == {"saved", "first_raises", "second_raises"}

\* "Process conversation history": the two saves, then the conversation_id or
\* the warning on the response
SaveHistory(r) ==
    \E outcome \in SaveOutcomes :
      LET user == Message("user", data.query, None)
          assistant == Message("assistant", answer_of(r), sources_json(r))
      IN  /\ env' = [env EXCEPT !.history = outcome]
          /\ CASE outcome = "saved" ->
                 /\ messages' = messages \o <<user, assistant>>
                 /\ reply' = Reply(200, r.keys \cup {"conversation_id"}, r,
                                   data.conversation_id, "")
            [] outcome = "first_raises" ->
                 /\ messages' = messages
                 /\ reply' = save_except(r)
            [] outcome = "second_raises" ->
                 /\ messages' = Append(messages, user)
                 /\ reply' = save_except(r)

\* route_query, route_direct_chat: from the return of perform_query to the
\* response
RouteRespond ==
    /\ rpc = "calling"
    /\ pc = "done"
    /\ rpc' = "responded"
    /\ IF data.route = "query" /\ "error" \in result.keys
       THEN /\ reply' = Reply(400, result.keys, result, None, "")
            /\ UNCHANGED <<messages, env>>
       ELSE IF ~IsNone(data.conversation_id)
       THEN SaveHistory(result)
       ELSE /\ reply' = Reply(200, result.keys, result, None, "")
            /\ UNCHANGED <<messages, env>>
    /\ UNCHANGED <<inputs, pc, llm, mode, called, llm_attempts, generations,
                   single_vars, multi_vars, direct_kb, prompt, result, data, requests,
                   fn_vars>>

RouteNext ==
    \/ RouteReceive
    \/ Validate
    \/ InitializeModel
    \/ FallbackModel
    \/ SelectMode
    \/ DirectChat
    \/ RouteRespond

RouteSpec == RouteInit /\ [][RouteNext]_vars

\* ------------------------------------------------------------------------
\* format_sources, rerank_documents and calculate_relevance_score applied on
\* their own, to arguments that perform_query does not pass them
\* ------------------------------------------------------------------------
MaxFormatDocs == 2

\* the page metadata values: ints and strs, below 1, padded, not a number
PageValues == {IntV(0 - 2), IntV(0), IntV(3), StrV(<<"7">>), StrV(<<" ", "7", " ">>),
               StrV(<<"-", "2">>), StrV(<<"x">>), StrV(<<>>)}

\* the page_label metadata values: digits, zero, not digits, empty, an int
LabelValues == {StrV(<<"5">>), StrV(<<"0">>), StrV(<<"3", "a">>), StrV(<<>>), IntV(5)}

\* passages without source that carry every combination of page and page_label
PagePassages ==
    {Document(<<"a">>, Metadata({}, <<>>, NoV, NoV))}
    \cup {Document(<<"a">>, Metadata({"page"}, <<>>, page, NoV)) : page \in PageValues}
    \cup {Document(<<"a">>, Metadata({"page_label"}, <<>>, NoV, label)) :
             label \in LabelValues}
    \cup {Document(<<"a">>, Metadata({"page", "page_label"}, <<>>, page, label)) :
             page \in PageValues, label \in LabelValues}

\* the passage lists format_sources is applied to: up to MaxFormatDocs of
\* the passages A..E, repetitions included, and each page passage alone
FormatDocLists ==
    UNION {[1..k -> Passages] : k \in 0..MaxFormatDocs} \cup {<<d>> : d \in PagePassages}

\* no function has been applied yet
InitFn ==
    /\ input_query = <<>>
    /\ kb_id = None
    /\ kb_ids = None
    /\ pc = "idle"
    /\ llm = "none"
    /\ mode = "none"
    /\ called = {}
    /\ llm_attempts = 0
    /\ generations = 0
    /\ env = Unknown
    /\ top_docs = <<>>
    /\ sources = <<>>
    /\ relevant_sources = <<>>
    /\ kb_index = 0
    /\ all_sources = <<>>
    /\ kb_outcome = NoOutcome
    /\ skipped = FALSE
    /\ top_sources = <<>>
    /\ direct_kb = None
    /\ prompt = NoPrompt
    /\ result = NoResult
    /\ NoRoute
    /\ NoCall

perform_query_vars ==
    <<inputs, pc, llm, mode, called, llm_attempts, generations, env, single_vars,
      multi_vars, direct_kb, prompt, result>>

\* format_sources(retrieved_docs, query_embedding, doc_embeddings): with no
\* embeddings, or with the embeddings of the first `n` passages
ApplyFormatSources ==
    /\ applied.fn = "none"
    /\ \E docs \in FormatDocLists :
         \E doc_embeddings \in {None} \cup {Some(Take(Embeddings(docs), n)) :
                                              n \in 0..Len(docs)} :
           LET query_embedding == IF IsNone(doc_embeddings) THEN None
                                  ELSE Some(QueryVector)
           IN  /\ applied' = Call("format_sources", <<>>, docs, query_embedding,
                                  doc_embeddings)
               /\ returned' =
                    IF format_sources_raises(docs, query_embedding, doc_embeddings)
                    THEN Raised
                    ELSE Returned(format_sources(docs, query_embedding, doc_embeddings))
    /\ UNCHANGED <<perform_query_vars, route_vars>>

MaxCoordinate == 4

\* the vectors calculate_relevance_score is applied to: two coordinates
\* between -MaxCoordinate and MaxCoordinate, with a whole norm
ScoreVectors ==
    {v \in [1..2 -> (0 - MaxCoordinate)..MaxCoordinate] :
        Isqrt(Dot(v, v)) * Isqrt(Dot(v, v)) = Dot(v, v)}

\* calculate_relevance_score(query_embedding, doc_embedding)
ApplyRelevanceScore ==
    /\ applied.fn = "none"
    /\ \E query_embedding \in ScoreVectors, doc_embedding \in ScoreVectors :
         /\ applied' = Call("calculate_relevance_score", <<>>, <<>>,
                            Some(query_embedding), Some(<<doc_embedding>>))
         /\ returned' = Returned(calculate_relevance_score(query_embedding,
                                                            doc_embedding))
    /\ UNCHANGED <<perform_query_vars, route_vars>>

MaxRerankDocs == 3

\* the queries rerank_documents is applied to: no term, one term, two terms,
\* a repeated term, upper case with punctuation
RerankQueries ==
    Queries \cup {<<"a", " ", "b">>, <<"a", " ", "a">>, <<"B", "?">>}

\* the passage lists rerank_documents is applied to: up to MaxRerankDocs of
\* the passages A..E and the malformed element, repetitions included
RerankDocLists ==
    UNION {[1..k -> Passages \cup {MalformedDocument}] : k \in 0..MaxRerankDocs}

\* rerank_documents(query, docs)
ApplyRerankDocuments ==
    /\ applied.fn = "none"
    /\ \E query \in RerankQueries, docs \in RerankDocLists :
         /\ applied' = Call("rerank_documents", query, docs, None, None)
         /\ returned' = IF rerank_documents_raises(query, docs) THEN Raised
                        ELSE Returned(rerank_documents(query, docs))
    /\ UNCHANGED <<perform_query_vars, route_vars>>

FnNext ==
    \/ ApplyFormatSources
    \/ ApplyRelevanceScore
    \/ ApplyRerankDocuments

FnSpec == InitFn /\ [][FnNext]_vars

\* ------------------------------------------------------------------------
\* Properties
\* ------------------------------------------------------------------------
\* the stages of each mode
MultiStages == {"multi_setup", "multi_loop", "multi_answer"}
SingleStages == {"check_kb", "open_index", "make_retriever", "retrieve", "score",
                 "fallback_answer", "grounded_answer"}

NoListScope == IsNone(kb_ids) \/ Len(Val(kb_ids)) = 0

IsSuccess(r) == {"answer", "sources"} \subseteq r.keys /\ "error" \notin r.keys
IsError(r) == {"error", "detail"} \subseteq r.keys /\ "answer" \notin r.keys

\* the direct-chat Success value that echoes kb
IsDirectChatSuccess(r, kb) ==
    /\ IsSuccess(r)
    /\ "is_direct_chat" \in r.keys
    /\ r.sources = <<>>
    /\ "kb_id" \in r.query.keys
    /\ r.query.kb_id = kb

\* C1: the mode follows the priority: a kb_ids list with at least one entry
\* gives multi mode, also when kb_id is given; otherwise no kb_id gives
\* direct-chat mode; otherwise the kb_id gives single mode. The stages of a
\* mode are entered in that mode only, so one mode is entered per call.
C1_ModePriority ==
    /\ mode # "none" =>
         /\ (~IsNone(kb_ids) /\ Len(Val(kb_ids)) >= 1) => mode = "multi"
         /\ (NoListScope /\ IsNone(kb_id)) => mode = "direct"
         /\ (NoListScope /\ ~IsNone(kb_id)) => mode = "single"
    /\ pc \in MultiStages => mode = "multi"
    /\ pc \in SingleStages => mode = "single"
    /\ pc = "direct" => mode \in {"multi", "direct", "single"}
    /\ mode = "multi" => env.store = "unknown" /\ env.index = "unknown"
    /\ mode = "single" => env.setup = "unknown" /\ kb_index = 0
    /\ mode = "direct" => env.store = "unknown" /\ env.setup = "unknown" /\ kb_index = 0

C1_ListScopeWins ==
    /\ pc = "done"
    /\ mode = "multi"
    /\ ~IsNone(kb_id)
    /\ kb_index > Len(Val(kb_ids))

\* C2: the empty query returns the Error "Query content cannot be empty" at
\* once: no model initialisation, no store lookup, no index call, no
\* embedding call and no generation happens.
C2_EmptyQueryRejected ==
    input_query = <<>> =>
        /\ pc \in {"start", "done"}
        /\ called = {}
        /\ llm_attempts = 0
        /\ generations = 0
        /\ llm = "none"
        /\ pc = "done" => result = ErrorResult("Query content cannot be empty",
                                               "Please provide a valid query")

C2_EmptyQueryReturned == input_query = <<>> /\ pc = "done"

\* one or more whitespace characters and nothing else
IsWhitespaceOnly(query) ==
    /\ query # <<>>
    /\ \A i \in 1..Len(query) : query[i] \in Whitespace

\* C3 (as stated): a whitespace-only query returns the same Error as the empty
\* query, without any external call.
C3_WhitespaceQueryRejected ==
    IsWhitespaceOnly(input_query) =>
        /\ pc \in {"start", "done"}
        /\ called = {}
        /\ pc = "done" => result = ErrorResult("Query content cannot be empty",
                                               "Please provide a valid query")

C3_WhitespaceQueryAnswered ==
    /\ IsWhitespaceOnly(input_query)
    /\ pc = "done"
    /\ IsSuccess(result)
    /\ "generate" \in called

\* the order of the stages: every step moves to a later one
StageRank(stage) ==
    CASE stage = "start" -> 0
      [] stage = "init_llm" -> 1
      [] stage = "fallback_llm" -> 2
      [] stage = "select" -> 3
      [] stage \in {"check_kb", "multi_setup"} -> 4
      [] stage \in {"open_index", "multi_loop"} -> 5
      [] stage \in {"make_retriever", "multi_answer"} -> 6
      [] stage = "retrieve" -> 7
      [] stage = "score" -> 8
      [] stage \in {"fallback_answer", "grounded_answer"} -> 9
      [] stage = "direct" -> 10
      [] stage = "done" -> 11

\* C4: whatever the collaborators do, the call ends with a Success value or an
\* Error value and nothing else: no value is returned before the end, the
\* value returned at the end is a Success or an Error, and every step moves
\* the call to a later stage or the loop to its next knowledge base, so the
\* end is reached after a bounded number of steps.
C4_SuccessOrError ==
    /\ [](pc # "done" => result = NoResult)
    /\ [](pc = "done" => (IsSuccess(result) \/ IsError(result)))
    /\ [](pc = "multi_loop" => kb_index \in 1..(Len(Val(kb_ids)) + 1))
    /\ [][\/ StageRank(pc') > StageRank(pc)
          \/ /\ pc = "multi_loop" /\ pc' = "multi_loop"
             /\ kb_index' > kb_index]_vars

C4_FailureCaught ==
    /\ pc = "done"
    /\ result.error = "Query execution failed"
    /\ IsError(result)

\* the kept passages that resolve, each with its score, before any filter
ScoredTopDocs ==
    collected_sources(top_docs, Some(embed_query(input_query)), Some(Embeddings(top_docs)))

\* single mode has scored the kept passages and returned an answer
SingleAnswered ==
    /\ mode = "single"
    /\ pc = "done"
    /\ env.scoring = "scored"
    /\ env.generation = "ok"

SomeAtLeast70(srcs) == \E i \in 1..Len(srcs) : ScoreOf(srcs[i]) >= SourceThreshold
SomeBelow70(srcs) == \E i \in 1..Len(srcs) : ScoreOf(srcs[i]) < SourceThreshold

\* C5 (as stated): in single mode, when the kept passages score both at least
\* 70 and below 70, the returned sources are all of them, the below-70 ones
\* included, in descending order of score, and the generation context is built
\* from the ones scoring at least 70 only.
C5_SourcesKeepLowRelevance ==
    (SingleAnswered /\ SomeAtLeast70(ScoredTopDocs) /\ SomeBelow70(ScoredTopDocs)) =>
        /\ result.sources = SortByScore(ScoredTopDocs)
        /\ prompt.template = "answer"
        /\ prompt.context =
             Contents(AboveThreshold(SortByScore(ScoredTopDocs), SourceThreshold))

C5_LowRelevanceDropped ==
    /\ SingleAnswered
    /\ SomeAtLeast70(ScoredTopDocs)
    /\ SomeBelow70(ScoredTopDocs)
    /\ Len(result.sources) < Len(ScoredTopDocs)
    /\ \A i \in 1..Len(result.sources) : ScoreOf(result.sources[i]) >= SourceThreshold
    /\ prompt.context = Contents(result.sources)

\* C6 (as stated): in single mode, when at least one retrieved passage
\* resolves and none scores at least 70, the call returns a Success whose
\* answer comes from the source-free prompt, with the advisory note, and whose
\* sources are the non-empty list of the low-relevance sources.
C6_FallbackKeepsSources ==
    (SingleAnswered /\ ScoredTopDocs # <<>> /\ ~SomeAtLeast70(ScoredTopDocs)) =>
        /\ IsSuccess(result)
        /\ prompt = Prompt("direct", <<>>, input_query)
        /\ "note" \in result.keys
        /\ result.note = NoHighRelevanceNote
        /\ result.sources # <<>>
        /\ result.sources = SortByScore(ScoredTopDocs)

C6_FallbackWithoutSources ==
    /\ SingleAnswered
    /\ ScoredTopDocs # <<>>
    /\ ~SomeAtLeast70(ScoredTopDocs)
    /\ "note" \in result.keys
    /\ prompt = Prompt("direct", <<>>, input_query)
    /\ result.sources = <<>>

\* the index of the knowledge base is empty, or opening it raised
IndexUnusable == mode = "single" /\ env.index \in {"empty", "raises"}

NoRetrieval ==
    /\ called \cap {"retrieve", "embed"} = {}
    /\ env.retriever = "unknown"
    /\ env.retrieval = "unknown"
    /\ top_docs = <<>>

\* C7 (as stated): in single mode, when the index of an existing knowledge
\* base is empty or opening it raises, the call makes no retrieval and
\* returns the direct-chat Success: is_direct_chat, no sources, kb_id echoed.
C7_EmptyIndexDirectChat ==
    IndexUnusable =>
        /\ NoRetrieval
        /\ pc \in {"direct", "done"}
        /\ pc = "done" => IsDirectChatSuccess(result, kb_id)

\* C7 (amended): in single mode, when the index of an existing knowledge base
\* is empty or opening it raises, the call makes no retrieval and goes to
\* direct chat with the kb_id: when the generation succeeds it returns the
\* direct-chat Success (is_direct_chat, no sources, kb_id echoed), and when
\* the generation raises it returns the Error "Answer generation failed".
C7_EmptyIndexDirectChatOrError ==
    IndexUnusable =>
        /\ env.store = "exists"
        /\ NoRetrieval
        /\ pc \in {"direct", "done"}
        /\ direct_kb = kb_id
        /\ pc = "done" =>
             /\ prompt = Prompt("direct", <<>>, input_query)
             /\ env.generation = "ok" => IsDirectChatSuccess(result, kb_id)
             /\ env.generation = "raises" =>
                  result = ErrorResult("Answer generation failed", "llm error")

C7_EmptyIndexAnswered ==
    /\ mode = "single"
    /\ env.index = "empty"
    /\ pc = "done"
    /\ IsDirectChatSuccess(result, Some(1))

\* the retriever cannot be built, the retrieval raises, or it returns nothing
RetrievalUnusable ==
    /\ mode = "single"
    /\ \/ env.retriever = "raises"
       \/ env.retrieval \in {"raises", "no_docs"}

\* C8: in single mode, when building the retriever raises, the retrieval
\* raises or it returns no passage, the call goes to direct chat and returns
\* no Error of its own: when the generation succeeds the result is the
\* direct-chat Success (is_direct_chat, no sources), and the only Error there
\* can be is the one of a generation that raises.
C8_RetrievalFailureDirectChat ==
    RetrievalUnusable =>
        /\ pc \in {"direct", "done"}
        /\ "embed" \notin called
        /\ direct_kb = kb_id
        /\ pc = "done" =>
             /\ env.generation = "ok" => IsDirectChatSuccess(result, kb_id)
             /\ IsError(result) =>
                  /\ env.generation = "raises"
                  /\ result.error = "Answer generation failed"

C8_NoPassagesAnswered ==
    /\ mode = "single"
    /\ env.retrieval = "no_docs"
    /\ pc = "done"
    /\ IsDirectChatSuccess(result, kb_id)

\* C9: in single mode with the model initialised, when the store has no
\* knowledge base of that id, the call returns the Error "Knowledge base does
\* not exist" and makes no index, retrieval, embedding or generation call.
C9_MissingKnowledgeBaseError ==
    (mode = "single" /\ env.store = "missing") =>
        /\ llm # "none"
        /\ pc = "done"
        /\ IsError(result)
        /\ result.error = "Knowledge base does not exist"
        /\ called \cap {"index", "retrieve", "embed", "generate"} = {}
        /\ generations = 0
        /\ env.index = "unknown"

C9_MissingKnowledgeBaseReturned ==
    /\ mode = "single"
    /\ env.store = "missing"
    /\ pc = "done"
    /\ llm = "fallback"

\* C10: in multi mode, an iteration for a knowledge base that does not exist,
\* has an empty index, or whose retrieval or scoring raises adds nothing to
\* the merged list and does not end the loop: every iteration, whatever its
\* outcome, is followed by the one of the next id of the list, the loop is
\* left after the last id only, and the sources an iteration keeps are
\* appended to the merged list.
C10_FailingKnowledgeBaseSkipped ==
    [][(pc = "multi_loop" /\ kb_index <= Len(Val(kb_ids))) =>
         /\ pc' = "multi_loop"
         /\ result' = result
         /\ kb_index' = kb_index + 1
         /\ kb_outcome'.kb_id = Some(Val(kb_ids)[kb_index])
         /\ kb_outcome'.outcome \in FailingOutcomes => all_sources' = all_sources
         /\ all_sources' = all_sources \o kb_outcome'.relevant_sources
         /\ \A i \in 1..Len(kb_outcome'.relevant_sources) :
              kb_outcome'.relevant_sources[i].knowledge_base_id
                  = Some(Val(kb_ids)[kb_index])]_vars

C10_LaterKnowledgeBaseAnswers ==
    /\ pc = "done"
    /\ mode = "multi"
    /\ skipped
    /\ kb_outcome.outcome = "scored"
    /\ kb_outcome.relevant_sources # <<>>
    /\ IsSuccess(result)
    /\ result.sources = top_sources
    /\ \A i \in 1..Len(top_sources) :
         top_sources[i].knowledge_base_id = Some(Val(kb_ids)[Len(Val(kb_ids))])

\* the sources of the passages one iteration kept, before any threshold
ScoredKept ==
    collected_sources(kb_outcome.top_docs, Some(embed_query(input_query)),
                      Some(Embeddings(kb_outcome.top_docs)))

\* an iteration of the loop over kb_ids that scored its passages has just ended
IterationScored == pc = "multi_loop" /\ kb_outcome.outcome = "scored"

\* C11: in multi mode, of the kept top-3 passages of a knowledge base, exactly
\* those whose document resolves and whose relevance score is at least 65 are
\* appended to the merged list, each tagged with the knowledge base's id.
C11_MultiThresholdKeeps ==
    IterationScored =>
        LET expected == Tagged(AboveThreshold(ScoredKept, MultiThreshold),
                               Val(kb_outcome.kb_id))
            appended == kb_outcome.relevant_sources
        IN  /\ Len(appended) = Len(expected)
            /\ {appended[i] : i \in 1..Len(appended)}
                   = {expected[i] : i \in 1..Len(expected)}

\* a kept passage that resolves and scores from 65 up to 69 is appended by no
\* iteration: format_sources has dropped it before the filter at 65 runs
C11_Score65Dropped ==
    /\ IterationScored
    /\ \E i \in 1..Len(ScoredKept) :
         /\ ScoreOf(ScoredKept[i]) >= MultiThreshold
         /\ ScoreOf(ScoredKept[i]) < SourceThreshold
         /\ \A j \in 1..Len(kb_outcome.relevant_sources) :
              kb_outcome.relevant_sources[j].content # ScoredKept[i].content

\* a multi-knowledge-base call has returned a Success
MultiAnswered ==
    pc = "done" /\ mode = "multi" /\ IsSuccess(result)
                /\ "is_multi_kb_query" \in result.keys

\* the number of entries of `srcs` equal to `s`
Occurrences(srcs, s) == Cardinality({i \in 1..Len(srcs) : srcs[i] = s})

\* C12: in multi mode the sources of a Success and the generation context are
\* the same list: the merged list sorted by descending score and cut to at
\* most 10 entries; every merged source left out scores no more than every
\* source kept.
C12_SourcesAreSortedCappedContext ==
    MultiAnswered =>
        LET kept == result.sources
        IN  /\ prompt.context = Contents(kept)
            /\ Len(kept) = Min(Len(all_sources), MaxSources)
            /\ \A i, j \in 1..Len(kept) : i < j => ScoreOf(kept[i]) >= ScoreOf(kept[j])
            /\ \A i \in 1..Len(kept) :
                 Occurrences(kept, kept[i]) <= Occurrences(all_sources, kept[i])
            /\ \A i \in 1..Len(all_sources) :
                 Occurrences(all_sources, all_sources[i]) > Occurrences(kept, all_sources[i])
                    => \A j \in 1..Len(kept) :
                         ScoreOf(all_sources[i]) <= ScoreOf(kept[j])

\* a Success whose merged list was longer than the cap, had a lower score ahead
\* of a higher one, and lost a source by the cap
C12_MergedListCut ==
    /\ MultiAnswered
    /\ Len(all_sources) > MaxSources
    /\ Len(result.sources) = MaxSources
    /\ \E i \in 1..Len(all_sources) - 1 :
         ScoreOf(all_sources[i]) < ScoreOf(all_sources[i + 1])
    /\ \E i \in 1..Len(all_sources) :
         Occurrences(all_sources, all_sources[i]) > Occurrences(result.sources, all_sources[i])

\* the loop over kb_ids has ended with an empty merged list
MergedListEmpty ==
    /\ mode = "multi"
    /\ env.setup = "ok"
    /\ kb_index > Len(Val(kb_ids))
    /\ all_sources = <<>>

NoScope == IsNone(kb_id) /\ NoListScope

ModelUnavailable == pc = "done" /\ llm = "none" /\ "llm_init" \in called

\* C15: the model is constructed with the configured name first; only after
\* that has failed are the installed models listed and the construction tried
\* once more with the first listed name; when the list is empty or cannot be
\* read, or the second construction fails, the call returns the Error "Cannot
\* initialize language model" with no mode selected and no retrieval or
\* generation. No call constructs the model more than twice.
C15_ModelInitialisation ==
    /\ [](llm_attempts <= 2)
    /\ [](llm = "configured" => (llm_attempts = 1 /\ "model_list" \notin called))
    /\ [](llm = "fallback" => (llm_attempts = 2 /\ "model_list" \in called))
    /\ [](StageRank(pc) > StageRank("fallback_llm") /\ pc # "done" => llm # "none")
    /\ [](ModelUnavailable =>
            /\ "model_list" \in called
            /\ IsError(result)
            /\ result.error = "Cannot initialize language model"
            /\ mode = "none"
            /\ generations = 0
            /\ called = {"llm_init", "model_list"})
    /\ [][/\ llm_attempts' # llm_attempts => pc \in {"init_llm", "fallback_llm"}
          /\ "model_list" \in called' \ called =>
                (pc = "fallback_llm" /\ llm_attempts = 1 /\ llm = "none")]_vars

\* the second construction has failed: two attempts, and the Error
C15_RetryFailed ==
    /\ ModelUnavailable
    /\ llm_attempts = 2
    /\ result.error = "Cannot initialize language model"

\* the stages that invoke the model for the answer
AnswerStages == {"fallback_answer", "grounded_answer", "multi_answer", "direct"}

\* C16: in every mode (grounded, no-relevant fallback, multi, direct chat), when
\* the answer generation raises, the call returns an Error value and tries no
\* other strategy: the generation step is the last step of the call, so a call
\* invokes the model for an answer at most once.
C16_GenerationFailureIsFinal ==
    /\ [](generations <= 1)
    /\ [](generations = 1 => pc = "done")
    /\ [](env.generation = "raises" =>
            /\ IsError(result)
            /\ result.error \in {"Cannot generate answer", "Answer generation failed"})
    /\ [][generations' # generations =>
            /\ pc \in AnswerStages
            /\ generations' = generations + 1
            /\ pc' = "done"]_vars

\* a multi-knowledge-base call whose generation from the merged sources raised
C16_MultiGenerationFailed ==
    /\ pc = "done"
    /\ mode = "multi"
    /\ top_sources # <<>>
    /\ env.generation = "raises"
    /\ generations = 1
    /\ result.error = "Cannot generate answer"

\* the sources of `docs` without relevance scores
UnscoredSources(docs) == collected_sources(docs, None, None)

\* C17: when computing embeddings fails after passages were retrieved, the
\* call goes on without relevance scores, in single and in multi mode alike:
\* the passages whose documents resolve stay sources, with relevance_score =
\* null, they are the generation context, and the result is not an Error.
C17_EmbeddingFailureRecovers ==
    /\ (mode = "single" /\ env.scoring = "embed_raises") =>
          /\ sources = UnscoredSources(top_docs)
          /\ relevant_sources = sources
          /\ \A i \in 1..Len(sources) : IsNone(sources[i].relevance_score)
          /\ (pc = "done" /\ env.generation = "ok") =>
                /\ IsSuccess(result)
                /\ result.sources = sources
                /\ prompt.context = Contents(sources)
    /\ (pc = "multi_loop" /\ kb_outcome.outcome = "scoring_raises") =>
          LET kept == Tagged(UnscoredSources(kb_outcome.top_docs), Val(kb_outcome.kb_id))
          IN  /\ kb_outcome.relevant_sources = kept
              /\ \A i \in 1..Len(kept) :
                   \E j \in 1..Len(all_sources) : all_sources[j] = kept[i]

\* a multi-knowledge-base call whose only knowledge base retrieved a resolving
\* passage and then failed to embed: the passage is no source, and the call is
\* answered by direct chat with sources = []
C17_MultiEmbeddingFailureDropsSources ==
    /\ pc = "done"
    /\ mode = "multi"
    /\ Len(Val(kb_ids)) = 1
    /\ kb_outcome.outcome = "scoring_raises"
    /\ \E i \in 1..Len(kb_outcome.top_docs) : Resolves(kb_outcome.top_docs[i])
    /\ all_sources = <<>>
    /\ IsDirectChatSuccess(result, None)

\* single mode has returned a Success whose answer was generated from context
GroundedSuccess ==
    /\ mode = "single"
    /\ pc = "done"
    /\ IsSuccess(result)
    /\ prompt.template = "answer"

SaveFailed == rpc = "responded" /\ env.history \in {"first_raises", "second_raises"}

\* C19: in route_query and route_direct_chat, when a conversation_id comes with
\* the request and saving either turn fails, the value perform_query returned
\* is the body of the response, unchanged, with status 200 and the advisory
\* "warning" field added: no Error takes the place of the answer.
C19_SaveFailureIsAdvisory ==
    SaveFailed =>
        /\ ~IsNone(data.conversation_id)
        /\ reply.status = 200
        /\ reply.body = result
        /\ reply.keys = result.keys \cup {"warning"}
        /\ reply.warning = "Failed to save conversation history"
        /\ IsSuccess(result) =>
              /\ IsSuccess(reply)
              /\ reply.body.answer = "raw_answer"
              /\ reply.body.sources = result.sources

\* /query has an answer, saved the user turn, failed to save the assistant
\* turn, and responds with the answer and the warning
C19_AnswerKeptAfterFailedSave ==
    /\ SaveFailed
    /\ env.history = "second_raises"
    /\ data.route = "query"
    /\ reply.status = 200
    /\ IsSuccess(reply)
    /\ "warning" \in reply.keys

\* the step by which a route responds to a request that carries the existing
\* conversation_id and has a Success from perform_query
SuccessWithConversation ==
    /\ rpc = "calling"
    /\ rpc' = "responded"
    /\ data.conversation_id = Some(ExistingConversation)
    /\ IsSuccess(result)

\* message_type of the rows, oldest first, alternates user, assistant
Alternating(rows) ==
    \A i \in 1..Len(rows) :
       rows[i].message_type = IF i % 2 = 1 THEN "user" ELSE "assistant"

\* C20 (as stated): every /query or /chat request that carries an existing
\* conversation_id and produces a Success appends exactly two messages to the
\* conversation, the user query first and the assistant answer second, and
\* echoes conversation_id, so that a conversation in alternating
\* user/assistant order stays so, two messages longer; a request without
\* conversation_id appends nothing.
C20_TwoMessagesPerSuccess ==
    /\ [][SuccessWithConversation =>
            /\ messages' = messages \o <<Message("user", data.query, None),
                                         Message("assistant", result.answer,
                                                 sources_json(result))>>
            /\ "conversation_id" \in reply'.keys
            /\ reply'.conversation_id = data.conversation_id
            /\ Alternating(messages) => Alternating(messages')]_vars
    /\ [][IsNone(data'.conversation_id) => messages' = messages]_vars

\* two requests with Success on the fresh conversation have left three
\* messages, two user turns in a row: the first request saved its user turn
\* and failed to save the answer
C20_UserTurnWithoutAnswer ==
    /\ rpc = "responded"
    /\ requests = 2
    /\ IsSuccess(reply)
    /\ "conversation_id" \in reply.keys
    /\ Len(messages) = 3
    /\ messages[1].message_type = "user"
    /\ messages[2].message_type = "user"
    /\ messages[3].message_type = "assistant"

\* the scores of `srcs` that are not null are in non-increasing order
SortedByScore(srcs) ==
    \A i, j \in 1..Len(srcs) :
       (i < j /\ ~IsNone(srcs[i].relevance_score) /\ ~IsNone(srcs[j].relevance_score))
          => ScoreOf(srcs[i]) >= ScoreOf(srcs[j])

\* format_sources has been applied with the embeddings of some, not all, of
\* at least two passages that resolve
PartialEmbeddings ==
    /\ applied.fn = "format_sources"
    /\ ~IsNone(applied.doc_embeddings)
    /\ Len(Val(applied.doc_embeddings)) > 0
    /\ Len(Val(applied.doc_embeddings)) < Len(applied.docs)
    /\ \A i \in 1..Len(applied.docs) : Resolves(applied.docs[i])

\* C21: every list format_sources returns is sorted by non-increasing score,
\* and format_sources returns, without raising, also when only the first of
\* the passages have an embedding.
C21_FormatSourcesSorted ==
    applied.fn = "format_sources" =>
        /\ ~returned.raised
        /\ SortedByScore(returned.value)

\* format_sources was given two resolving passages and the embedding of the
\* first only, and raised
C21_PartialEmbeddingsRaise ==
    /\ PartialEmbeddings
    /\ Len(applied.docs) = 2
    /\ returned.raised

\* format_sources has been applied and has returned
FormatSourcesReturned == applied.fn = "format_sources" /\ ~returned.raised

\* C22: every source format_sources produces has page = null or page >= 1,
\* whatever the page_label and page metadata are (label "0", negative, zero,
\* non-numeric and missing values included).
C22_PageAtLeastOne ==
    FormatSourcesReturned =>
        \A i \in 1..Len(returned.value) :
           IsNone(returned.value[i].page) \/ Val(returned.value[i].page) >= 1

\* the passage with page_label "0" has come back with page 0
C22_LabelZeroGivesPageZero ==
    /\ FormatSourcesReturned
    /\ Len(applied.docs) = 1
    /\ "page_label" \in applied.docs[1].metadata.keys
    /\ applied.docs[1].metadata.page_label = StrV(<<"0">>)
    /\ Len(returned.value) = 1
    /\ returned.value[1].page = Some(0)

\* the two vectors of an application of calculate_relevance_score
ScoredQuery == Val(applied.query_embedding)
ScoredDoc == Val(applied.doc_embeddings)[1]

RerankScoringFailed ==
    /\ applied.fn = "rerank_documents"
    /\ \E i \in 1..Len(applied.docs) : applied.docs[i] = MalformedDocument

\* C24: rerank_documents never raises, and whenever scoring fails it returns
\* the input sequence itself: the same elements in their original order
C24_RerankNeverRaises ==
    applied.fn = "rerank_documents" =>
        /\ ~returned.raised
        /\ RerankScoringFailed => returned.value = applied.docs

\* a list of three with the malformed element in the middle came back unchanged
C24_MalformedListReturned ==
    /\ RerankScoringFailed
    /\ Len(applied.docs) = 3
    /\ applied.docs[2] = MalformedDocument
    /\ applied.docs[1] # applied.docs[3]
    /\ ~returned.raised
    /\ returned.value = applied.docs

\* rerank_documents was applied to a list of well-formed passages
RerankWellFormed ==
    /\ applied.fn = "rerank_documents"
    /\ \A i \in 1..Len(applied.docs) : applied.docs[i] \in Passages

\* the number of words of the passage that are normalised query terms: the
\* sum, over the distinct query terms, of the term's occurrences in the passage
OverlapScore(query, doc) ==
    LET query_words == Split(Clean(query))
        terms == {query_words[i] : i \in 1..Len(query_words)}
        words == Split(Clean(doc.page_content))
    IN  Cardinality({i \in 1..Len(words) : words[i] \in terms})

\* C25: on well-formed input rerank_documents returns a permutation of its
\* input in non-increasing overlap score, and passages of equal score keep
\* their original relative order
C25_RerankStableByOverlap ==
    RerankWellFormed =>
        /\ ~returned.raised
        /\ Len(returned.value) = Len(applied.docs)
        /\ \E p \in Permutations(1..Len(applied.docs)) :
             /\ \A i \in 1..Len(applied.docs) : returned.value[i] = applied.docs[p[i]]
             /\ \A i \in 1..Len(applied.docs), j \in 1..Len(applied.docs) :
                  i < j =>
                    /\ OverlapScore(applied.query, applied.docs[p[i]])
                          >= OverlapScore(applied.query, applied.docs[p[j]])
                    /\ OverlapScore(applied.query, applied.docs[p[i]])
                          = OverlapScore(applied.query, applied.docs[p[j]]) => p[i] < p[j]

\* three passages were reordered: the last one, of the highest score, came
\* first, and the two others, of equal score, follow in their original order
C25_TieAfterReorder ==
    /\ RerankWellFormed
    /\ Len(applied.docs) = 3
    /\ applied.docs[1] # applied.docs[2]
    /\ OverlapScore(applied.query, applied.docs[1])
         = OverlapScore(applied.query, applied.docs[2])
    /\ OverlapScore(applied.query, applied.docs[3]) = 2
    /\ OverlapScore(applied.query, applied.docs[1]) = 1
    /\ returned.value = <<applied.docs[3], applied.docs[1], applied.docs[2]>>

\* format_sources returned from a list of one passage
OnePassageFormatted == FormatSourcesReturned /\ Len(applied.docs) = 1
FormattedMetadata == applied.docs[1].metadata

\* the metadata has a page_label that is a string of digits
NumericLabel(metadata) ==
    /\ "page_label" \in metadata.keys
    /\ metadata.page_label.t = "str"
    /\ IsDigit(metadata.page_label.s)

\* the page index as an integer, None when it cannot be parsed
CoercedPage(metadata) ==
    IF metadata.page.t = "str" THEN ParseInt(metadata.page.s) ELSE Some(metadata.page.i)

\* the page the policy gives: the numeric label; otherwise the page index, 1
\* when it is below 1 or cannot be parsed; otherwise null
PolicyPage(metadata) ==
    IF NumericLabel(metadata) THEN Some(DigitsValue(metadata.page_label.s))
    ELSE IF "page" \notin metadata.keys THEN None
    ELSE IF IsNone(CoercedPage(metadata)) THEN Some(1)
    ELSE Some(Max(1, Val(CoercedPage(metadata))))

\* C26: format_sources resolves the page by the policy (numeric page_label;
\* otherwise the page index coerced to an integer, 1 when below 1 or not
\* parsable; otherwise null) and returns the original page_label unchanged:
\* label "5" gives 5, label "3a" with page 0 gives 1, page -2 gives 1, no page
\* metadata gives null.
C26_PagePolicy ==
    OnePassageFormatted =>
        \A i \in 1..Len(returned.value) :
           LET md == FormattedMetadata
               src == returned.value[i]
               label(l) == "page_label" \in md.keys /\ md.page_label = l
               page(v) == "page" \in md.keys /\ md.page = v
           IN  /\ src.page = PolicyPage(md)
               /\ src.page_label = IF "page_label" \in md.keys THEN Some(md.page_label)
                                    ELSE None
               /\ label(StrV(<<"5">>)) => src.page = Some(5)
               /\ label(StrV(<<"3", "a">>)) /\ page(IntV(0)) => src.page = Some(1)
               /\ ~NumericLabel(md) /\ page(IntV(0 - 2)) => src.page = Some(1)
               /\ md.keys \cap {"page", "page_label"} = {} => src.page = None

\* label "3a" with page index 0 has come back as page 1 with the label "3a"
C26_NonNumericLabelFallsBack ==
    /\ OnePassageFormatted
    /\ FormattedMetadata.keys = {"page", "page_label"}
    /\ FormattedMetadata.page_label = StrV(<<"3", "a">>)
    /\ FormattedMetadata.page = IntV(0)
    /\ Len(returned.value) = 1
    /\ returned.value[1].page = Some(1)
    /\ returned.value[1].page_label = Some(StrV(<<"3", "a">>))

\* two entries of `srcs` cite the same passage: same document, same content
SamePassageTwice(srcs) ==
    \E i \in 1..Len(srcs), j \in 1..Len(srcs) :
       /\ i < j
       /\ srcs[i].document_id = srcs[j].document_id
       /\ srcs[i].content = srcs[j].content

\* C27: the source list is deduplicated: no Success holds the same passage
\* (same document and content) twice in `sources`, also in multi mode when
\* kb_ids names the same knowledge base more than once.
C27_NoPassageTwice ==
    (pc = "done" /\ IsSuccess(result)) => ~SamePassageTwice(result.sources)

\* kb_ids = [1, 1] was answered in multi mode with the same source twice
C27_RepeatedKbRepeatsSource ==
    /\ MultiAnswered
    /\ kb_ids = Some(<<1, 1>>)
    /\ Len(result.sources) = 2
    /\ result.sources[1] = result.sources[2]
    /\ result.sources[1].knowledge_base_id = Some(1)

\* the step by which a route responds after perform_query returned an Error
RespondToError ==
    /\ rpc = "calling"
    /\ rpc' = "responded"
    /\ IsError(result)

\* C28: an Error of perform_query is never recorded in the conversation
\* history: on /query and on /chat, when perform_query returns an Error no
\* message is appended and the response does not have a success status.
C28_ErrorNeverRecorded ==
    [][RespondToError => (messages' = messages /\ reply'.status # 200)]_vars

\* /chat has recorded an Error as a user turn and an empty assistant turn and
\* has answered it with status 200 and the conversation_id
C28_ChatRecordsError ==
    /\ rpc = "responded"
    /\ data.route = "chat"
    /\ IsError(result)
    /\ reply.status = 200
    /\ IsError(reply)
    /\ "conversation_id" \in reply.keys
    /\ Len(messages) = 2
    /\ messages[1] = Message("user", data.query, None)
    /\ messages[2] = Message("assistant", "", None)

\* perform_query has returned a Success
Succeeded == pc = "done" /\ IsSuccess(result)

\* the ids the caller asked for in kb_ids
RequestedKbIds == {Val(kb_ids)[i] : i \in 1..Len(Val(kb_ids))}

Turns(message_type) ==
    Cardinality({i \in 1..Len(messages) : messages[i].message_type = message_type})

\* C30: recording the two turns of a request is all-or-nothing: after any
\* sequence of /query and /chat requests, save failures included, the
\* conversation has as many user turns as assistant turns.
C30_TurnsPaired == Turns("user") = Turns("assistant")

\* a single request has left its user turn alone in the conversation: the
\* save of the assistant turn failed, and the client got the warning
C30_LoneUserTurn ==
    /\ rpc = "responded"
    /\ requests = 1
    /\ env.history = "second_raises"
    /\ messages = <<Message("user", data.query, None)>>
    /\ Turns("assistant") = 0
    /\ "warning" \in reply.keys

====
